---------------------------- MODULE Spec2Model ----------------------------
(* async-graphql-actix-web: the HTTP handler produced by HandlerBuilder::build *)
(* and handle_request (src/async-graphql-actix-web/src/lib.rs).  One request  *)
(* is followed from its arrival to its response; every await of the handler   *)
(* on the body stream or on the engine is one step.                           *)
EXTENDS Integers, Sequences, FiniteSets, TLC

(***************************************************************************)
(* Bounds of the model                                                     *)
(***************************************************************************)
\* chunks one multipart field may deliver before its stream must end
MaxChunks == 2
\* fields the file loop may take from the multipart stream
MaxFileFields == 3

(***************************************************************************)
(* Header values: sequences of bytes, written as one-character strings.    *)
(* "0xFF" stands for a byte outside visible ASCII (obs-text).              *)
(***************************************************************************)
OpaqueBytes == {"0xFF"}

UpperCase == <<"A", "B", "C", "D", "E", "F", "J", "K", "M", "N", "O", "P", "S", "T", "W">>
LowerCase == <<"a", "b", "c", "d", "e", "f", "j", "k", "m", "n", "o", "p", "s", "t", "w">>

\* u8::to_ascii_lowercase
to_ascii_lowercase_byte(c) ==
    IF \E i \in 1..Len(UpperCase) : UpperCase[i] = c
    THEN LowerCase[CHOOSE i \in 1..Len(UpperCase) : UpperCase[i] = c]
    ELSE c

\* str::to_ascii_lowercase
to_ascii_lowercase(s) == [i \in 1..Len(s) |-> to_ascii_lowercase_byte(s[i])]

\* str::contains
contains(hay, needle) ==
    \E i \in 0..(Len(hay) - Len(needle)) : SubSeq(hay, i + 1, i + Len(needle)) = needle

\* HeaderValue::to_str succeeds only on visible ASCII
to_str_ok(bytes) == \A i \in 1..Len(bytes) : bytes[i] \notin OpaqueBytes

NoHeader == [present |-> FALSE, bytes |-> <<>>]
Header(bytes) == [present |-> TRUE, bytes |-> bytes]

sWebsocket == <<"w", "e", "b", "s", "o", "c", "k", "e", "t">>
sApplicationJson == <<"a", "p", "p", "l", "i", "c", "a", "t", "i", "o", "n", "/", "j", "s", "o", "n">>
sMultipartFormData ==
    <<"m", "u", "l", "t", "i", "p", "a", "r", "t", "/", "f", "o", "r", "m", "-", "d", "a", "t", "a">>
sTextPlain == <<"t", "e", "x", "t", "/", "p", "l", "a", "i", "n">>

(***************************************************************************)
(* mime::Mime parsing, as far as the handler depends on it: the essence is *)
(* the lowercased type/subtype in front of the first ';' or ' '.           *)
(***************************************************************************)
IndexOf(s, c) == IF \E i \in 1..Len(s) : s[i] = c
                 THEN CHOOSE i \in 1..Len(s) : s[i] = c /\ \A j \in 1..(i - 1) : s[j] # c
                 ELSE 0

EssenceEnd(s) ==
    LET semi == IndexOf(s, ";")
        sp   == IndexOf(s, " ")
        ends == {i \in {semi, sp} : i > 0}
    IN  IF ends = {} THEN Len(s)
        ELSE (CHOOSE i \in ends : \A j \in ends : i <= j) - 1

CountOf(s, c) == Cardinality({i \in 1..Len(s) : s[i] = c})

\* content_type.parse::<Mime>()
ParseMime(s) ==
    LET head  == SubSeq(s, 1, EssenceEnd(s))
        slash == IndexOf(head, "/")
        rest  == SubSeq(s, EssenceEnd(s) + 1, Len(s))
        ok    == /\ CountOf(head, "/") = 1
                 /\ slash > 1
                 /\ slash < Len(head)
                 /\ (rest = <<>> \/ (contains(rest, <<";">>) /\ contains(rest, <<"=">>)))
    IN  [ok |-> ok, essence |-> IF ok THEN to_ascii_lowercase(head) ELSE <<>>]

\* get_content_type: Ok(Mime) or Err
get_content_type(h) ==
    IF h.present /\ to_str_ok(h.bytes) /\ ParseMime(h.bytes).ok
    THEN [ok |-> TRUE, essence |-> ParseMime(h.bytes).essence]
    ELSE [ok |-> FALSE, essence |-> <<>>]


(***************************************************************************)
(* Inputs: the requests, multipart fields and chunks a client may send     *)
(***************************************************************************)
None == "(none)"

Methods == {"GET", "POST", "PUT"}

UpgradeHeaders ==
    { NoHeader,
      Header(sWebsocket),
      Header(<<"W", "e", "b", "S", "o", "c", "k", "e", "t">>),
      Header(<<"h", "2", "c", ",", " ">> \o sWebsocket),
      Header(<<"h", "2", "c">>),
      Header(<<"w", "e", "b", "s", "o", "c", "k">>),
      Header(sWebsocket \o <<"0xFF">>) }

ContentTypeHeaders ==
    { NoHeader,
      Header(sApplicationJson),
      Header(sApplicationJson \o <<";", " ", "c", "=", "u">>),
      Header(<<"A", "p", "p", "l", "i", "c", "a", "t", "i", "o", "n", "/", "J", "S", "O", "N">>),
      Header(sMultipartFormData),
      Header(sMultipartFormData \o <<";", " ", "b", "=", "x">>),
      Header(sTextPlain),
      Header(<<"j", "s", "o", "n">>),
      Header(sApplicationJson \o <<"0xFF">>) }

\* every Upgrade header on a GET, every Content-Type on a POST and a PUT, and
\* the upgrade request sent with the other methods
Requests ==
    [method : {"GET"}, upgrade : UpgradeHeaders,
     content_type : {NoHeader, Header(sApplicationJson)}]
    \cup [method : {"POST", "PUT"}, upgrade : {NoHeader}, content_type : ContentTypeHeaders]
    \cup [method : {"POST", "PUT"}, upgrade : {Header(sWebsocket)},
          content_type : {NoHeader, Header(sApplicationJson), Header(sTextPlain)}]

\* HandlerBuilder's fields (schema left out: it is the engine's)
\* every pair of limits with every setting of the hook, and every setting of
\* the two flags of the dispatcher
FileSizeLimits == {1, 2}
FileCountLimits == {0, 1, 2}
Configs ==
    [max_file_size : FileSizeLimits, max_file_count : FileCountLimits,
     enable_subscription : {FALSE}, enable_ui : {FALSE}, on_request : BOOLEAN]
    \cup [max_file_size : {2}, max_file_count : {1},
          enable_subscription : BOOLEAN, enable_ui : BOOLEAN, on_request : {FALSE}]

\* field names of the upload map, and one name no map declares
Keys == {"a", "b"}

\* the header of a multipart field: its content disposition (if any), the
\* disposition's name and filename (if any), and the field's content type
FieldHeaders ==
    { [cd |-> FALSE, name |-> None, filename |-> None, content_type |-> "text/plain"] }
    \cup [cd : {TRUE}, name : {"operations", "map"}, filename : {None},
          content_type : {"text/plain"}]
    \cup [cd : {TRUE}, name : Keys \cup {"x", None}, filename : {None, "f.txt"},
          content_type : {"text/plain"}]

NoField == [cd |-> FALSE, name |-> None, filename |-> None, content_type |-> None]

\* what the stream yields on one poll
Chunks == { <<1>>, <<2, 3>> }

VarPathLists == { <<"variables.file">>, <<"variables.file", "variables.files.0">> }
UploadMaps == UNION { [S -> VarPathLists] : S \in SUBSET Keys }
EmptyMap == [k \in {} |-> <<>>]

\* a parsed GQLRequest, by what the engine makes of it
GQLRequests == [document_ok : BOOLEAN, is_upload : BOOLEAN, cache_control : {None, "max-age=30"}]
NoRequest == [document_ok |-> FALSE, is_upload |-> FALSE, cache_control |-> None]

\* a JSON body as the Json extractor sees it: whether it deserializes into a
\* GQLRequest, and whether it is longer than the extractor's payload limit
JsonBodies == [read : {TRUE}, valid : BOOLEAN, over_limit : BOOLEAN]
NoBody == [read |-> FALSE, valid |-> FALSE, over_limit |-> FALSE]

NoBuilder == [built |-> FALSE, is_upload |-> FALSE, cache_control |-> None, uploads |-> <<>>]

(***************************************************************************)
(* Responses                                                               *)
(***************************************************************************)
NoResponse == [status |-> 0, body |-> None, cache_control |-> None, msg |-> None]
\* HttpResponse::X().finish()
Finish(status) == [status |-> status, body |-> "", cache_control |-> None, msg |-> None]
\* Err(actix_web::error::ErrorX(msg))
ErrorResponse(status, msg) ==
    [status |-> status, body |-> msg, cache_control |-> None, msg |-> msg]
\* web::Json(GQLResponse(result)).respond_to(&req)
JsonResponse(ok) ==
    [status |-> 200, body |-> IF ok THEN "data" ELSE "errors", cache_control |-> None, msg |-> None]

(***************************************************************************)
(* State                                                                   *)
(***************************************************************************)
VARIABLES
    cfg,          \* the HandlerBuilder the handler was built from
    req,          \* the request: method, Upgrade and Content-Type headers
    pc,           \* where the request's future is suspended
    route,        \* the path the dispatcher chose
    resp,         \* the response, once pc = "done"
    failure,      \* the step that failed, for a response that is an Err(..)
    polls,        \* what multipart.next() returned inside read_multipart, in order
    field,        \* header of the field being streamed
    nchunks,      \* chunks read from the field being streamed
    part_data,    \* read_multipart's data
    gql_request,  \* the GQLRequest parsed from the operations part / JSON body
    map,          \* the upload map, keys removed as file fields match
    parsedMap,    \* the upload map as parsed
    builder,      \* the QueryBuilder
    var_paths,    \* map.remove(name) of the file field being streamed
    data,         \* the file loop's data
    file_count,   \* the file loop's file_count
    taken,        \* headers of the fields the file loop took from the stream
    streamEnded,  \* the file loop's multipart.next() has returned None
    chunkLog,     \* the chunks of the file field being streamed, as they arrived
    accepted,     \* the file fields streamed to their end: header and chunks
    hookCalls,    \* calls of on_request
    executeCalls, \* calls of builder.execute()
    engineError,  \* "build", "execute" or "none": the engine error of this request
    bodyRead,     \* the request's payload has been polled
    json_body,    \* the body the Json extractor read
    tasks,        \* the calls of handle_request in flight together, by request
    overlapped    \* by request: it took a step while another was under way

vars == <<cfg, req, pc, route, resp, failure, polls, field, nchunks, part_data, gql_request,
          map, parsedMap, builder, var_paths, data, file_count, taken, streamEnded,
          chunkLog, accepted, hookCalls, executeCalls, engineError, bodyRead, json_body,
          tasks, overlapped>>

\* what no step of the multipart path writes
reqVars == <<cfg, req, json_body, tasks, overlapped>>
partVars == <<polls, field, nchunks, part_data>>
buildVars == <<gql_request, map, parsedMap, builder, hookCalls, engineError>>
fileVars == <<var_paths, data, file_count, taken, streamEnded, chunkLog, accepted>>

Init ==
    /\ cfg \in Configs
    /\ req \in Requests
    /\ pc = "start"
    /\ route = None
    /\ resp = NoResponse
    /\ failure = None
    /\ polls = <<>>
    /\ field = NoField
    /\ nchunks = 0
    /\ part_data = <<>>
    /\ gql_request = NoRequest
    /\ map = EmptyMap
    /\ parsedMap = EmptyMap
    /\ builder = NoBuilder
    /\ var_paths = <<>>
    /\ data = <<>>
    /\ file_count = 0
    /\ taken = <<>>
    /\ streamEnded = FALSE
    /\ chunkLog = <<>>
    /\ accepted = <<>>
    /\ hookCalls = 0
    /\ executeCalls = 0
    /\ engineError = "none"
    /\ bodyRead = FALSE
    /\ json_body = NoBody
    /\ tasks = <<>>
    /\ overlapped = <<>>

(***************************************************************************)
(* The closure returned by HandlerBuilder::build                           *)
(***************************************************************************)
\* IsWebsocketUpgrade comparing the header as sent, without to_ascii_lowercase
IsWebsocketUpgradeCaseSensitive(c, r) ==
    /\ c.enable_subscription
    /\ r.upgrade.present
    /\ to_str_ok(r.upgrade.bytes)
    /\ contains(r.upgrade.bytes, sWebsocket)

\* lines 136-139: the request asks for a websocket upgrade the handler serves
IsWebsocketUpgrade(c, r) ==
    /\ c.enable_subscription
    /\ r.upgrade.present
    /\ to_str_ok(r.upgrade.bytes)
    /\ contains(to_ascii_lowercase(r.upgrade.bytes), sWebsocket)

\* Negotiate without the test of line 161: every request left over is handled as a POST
NegotiateAnyMethod(c, r) ==
    IF r.method = "GET" /\ IsWebsocketUpgrade(c, r) THEN "subscription"
    ELSE IF r.method = "GET" /\ c.enable_ui THEN "ui"
    ELSE "post"

\* the branch the closure takes
Negotiate(c, r) ==
    IF r.method = "GET" /\ IsWebsocketUpgrade(c, r) THEN "subscription"
    ELSE IF r.method = "GET" /\ c.enable_ui THEN "ui"
    ELSE IF r.method = "POST" THEN "post"
    ELSE "reject405"

\* ContentRoute comparing the whole header value, parameters included
ContentRouteWithParameters(r) ==
    LET ct == get_content_type(r.content_type)
        whole == to_ascii_lowercase(r.content_type.bytes)
    IN  IF ~ct.ok THEN "reject415"
        ELSE IF whole = sMultipartFormData THEN "multipart"
        ELSE IF whole = sApplicationJson THEN "json"
        ELSE "reject415"

\* the branch handle_request takes on the Content-Type
ContentRoute(r) ==
    LET ct == get_content_type(r.content_type)
    IN  IF ~ct.ok THEN "reject415"
        ELSE IF ct.essence = sMultipartFormData THEN "multipart"
        ELSE IF ct.essence = sApplicationJson THEN "json"
        ELSE "reject415"

Dispatch ==
    /\ pc = "start"
    /\ LET n == Negotiate(cfg, req)
       IN  CASE n = "subscription" ->
                    \* ws::start_with_protocols takes the request and the payload over
                    /\ route' = "subscription"
                    /\ resp' = [status |-> 101, body |-> "graphql-ws", cache_control |-> None,
                                msg |-> None]
                    /\ pc' = "done"
             [] n = "ui" ->
                    /\ route' = "ui"
                    /\ resp' = [status |-> 200, body |-> "playground_source",
                                cache_control |-> None, msg |-> None]
                    /\ pc' = "done"
             [] n = "post" ->
                    /\ route' = route
                    /\ resp' = resp
                    /\ pc' = "handle_request"
             [] OTHER ->
                    /\ route' = "reject405"
                    /\ resp' = Finish(405)
                    /\ pc' = "done"
    /\ UNCHANGED <<reqVars, failure, partVars, buildVars, fileVars, executeCalls, bodyRead>>

HandleRequest ==
    /\ pc = "handle_request"
    /\ LET r == ContentRoute(req)
       IN  /\ route' = r
           /\ CASE r = "multipart" -> pc' = "ops_next" /\ resp' = resp
                [] r = "json" -> pc' = "json_extract" /\ resp' = resp
                [] OTHER -> pc' = "done" /\ resp' = Finish(415)
    /\ UNCHANGED <<reqVars, failure, partVars, buildVars, fileVars, executeCalls, bodyRead>>

(***************************************************************************)
(* read_multipart(multipart, name)                                         *)
(***************************************************************************)
Poll(kind, head) == [kind |-> kind, head |-> head]

\* read_multipart_check without the comparison of line 332
read_multipart_check_any_name(h, name) ==
    IF ~h.cd THEN "no_disposition"
    ELSE IF h.name = None THEN "no_name"
    ELSE "ok"

\* lines 330-337: what read_multipart makes of the header of the field it got
read_multipart_check(h, name) ==
    IF ~h.cd THEN "no_disposition"
    ELSE IF h.name = None THEN "no_name"
    ELSE IF h.name # name THEN "expect_name"
    ELSE "ok"

\* the message of the Err each failed check returns
read_multipart_msg(check, name) ==
    CASE check = "no_disposition" -> "bad request"
      [] check = "no_name" -> "missing \"operations\""
      [] OTHER -> IF name = "map" THEN "expect \"map\"" ELSE "expect \"operations\""

\* Fail answering every Err(e) as a fault of the server
FailAsServerFault(status, msg, step) ==
    /\ pc' = "done"
    /\ resp' = ErrorResponse(500, msg)
    /\ failure' = step

\* Fail without the return: the error is recorded and the handler falls
\* through to the execution of the operation
FailThenExecute(status, msg, step) ==
    /\ pc' = "mp_execute"
    /\ resp' = ErrorResponse(status, msg)
    /\ failure' = step

\* the request ends with Err(e): e's ResponseError gives the status
Fail(status, msg, step) ==
    /\ pc' = "done"
    /\ resp' = ErrorResponse(status, msg)
    /\ failure' = step

\* ChunkError as `Err(_) => break`: the error ends the field like the end of
\* its chunks, and the handler goes on with what was buffered
ChunkErrorEndsField(step) ==
    /\ failure' = step
    /\ UNCHANGED <<pc, resp>>

\* part.map_err(ErrorBadRequest)? at lines 238 and 341: a failed chunk of the
\* body stream ends the request
ChunkError(step) == Fail(400, "payload error", step)

\* multipart.next().await at line 328
ReadMultipartNext(name, here, chunks) ==
    /\ pc = here
    /\ bodyRead' = TRUE
    /\ \/ \* None: the stream has no further field
          /\ polls' = Append(polls, Poll("eof", NoField))
          /\ Fail(400, "bad request", "eof")
          /\ UNCHANGED <<field, nchunks, part_data>>
       \/ \* Some(Err(err)): MultipartError answers 400
          /\ polls' = Append(polls, Poll("err", NoField))
          /\ Fail(400, "multipart error", "stream_err")
          /\ UNCHANGED <<field, nchunks, part_data>>
       \/ \E h \in FieldHeaders :
            /\ polls' = Append(polls, Poll("field", h))
            /\ LET check == read_multipart_check(h, name)
               IN  IF check = "ok"
                   THEN /\ pc' = chunks
                        /\ field' = h
                        /\ nchunks' = 0
                        /\ part_data' = <<>>
                        /\ UNCHANGED <<resp, failure>>
                   ELSE /\ Fail(400, read_multipart_msg(check, name), check)
                        /\ UNCHANGED <<field, nchunks, part_data>>
    /\ UNCHANGED <<reqVars, route, buildVars, fileVars, executeCalls>>

\* field.next().await at line 340 yields a chunk or an error
ReadMultipartChunk(here) ==
    /\ pc = here
    /\ bodyRead' = TRUE
    /\ \/ \E part \in Chunks :
            /\ nchunks < MaxChunks
            /\ part_data' = part_data \o part
            /\ nchunks' = nchunks + 1
            /\ UNCHANGED <<pc, resp, failure>>
       \/ /\ ChunkError("part_chunk_err")
          /\ UNCHANGED <<part_data, nchunks>>
    /\ UNCHANGED <<reqVars, route, polls, field, buildVars, fileVars, executeCalls>>

ReadOperationsNext == ReadMultipartNext("operations", "ops_next", "ops_chunk")
ReadOperationsChunk == ReadMultipartChunk("ops_chunk")
ReadMapNext == ReadMultipartNext("map", "map_next", "map_chunk")
ReadMapChunk == ReadMultipartChunk("map_chunk")

(***************************************************************************)
(* The engine's side of the QueryBuilder                                   *)
(***************************************************************************)
\* into_query_builder that never returns Err: the document is not looked at
into_query_builder_always_ok(g) ==
    [ok |-> TRUE,
     builder |-> [built |-> TRUE, is_upload |-> g.is_upload,
                  cache_control |-> g.cache_control, uploads |-> <<>>]]

\* gql_request.into_query_builder(schema): Ok(builder) or Err(err)
into_query_builder(g) ==
    [ok |-> g.document_ok,
     builder |-> [built |-> TRUE, is_upload |-> g.is_upload,
                  cache_control |-> g.cache_control, uploads |-> <<>>]]

\* the builder's error returned as Err(ErrorBadRequest(err))
BuildErrorAsBadRequest == ErrorResponse(400, "bad request")

\* lines 212 and 288: Err(err) => return Ok(web::Json(GQLResponse(Err(err))))
BuildErrorResponse == JsonResponse(FALSE)

\* the hook applied a second time
HookCalledTwice(c) == IF c.on_request THEN 2 ELSE 0

\* lines 215-217 and 290-292: if let Some(on_request) = on_request
HookCallsOf(c) == IF c.on_request THEN 1 ELSE 0

\* the check of line 219 left out
NotUploadAccepted(b) == FALSE

\* line 219: !builder.is_upload()
NotUploadOperation(b) == ~b.is_upload

\* line 279: Ok(web::Json(GQLResponse(builder.execute().await)))
MultipartExecuteResponse(ok) == JsonResponse(ok)

\* JsonExecuteResponse without lines 295-297: the header is set on an error too
JsonExecuteKeepsCacheControl(ok, cache_control) ==
    [JsonResponse(ok) EXCEPT !.cache_control = cache_control]

\* JsonExecuteResponse returning the error of execute as Err(ErrorBadRequest(..))
JsonExecuteErrorAsBadRequest(ok, cache_control) ==
    IF ok THEN [JsonResponse(ok) EXCEPT !.cache_control = cache_control]
    ELSE ErrorResponse(400, "errors")

\* lines 293-305: the JSON path's response, with the Cache-Control header
JsonExecuteResponse(ok, cache_control) ==
    [JsonResponse(ok) EXCEPT !.cache_control = IF ok THEN cache_control ELSE None]

(***************************************************************************)
(* handle_request, multipart path: lines 196-223                           *)
(***************************************************************************)
\* the operations field ends: serde_json::from_slice::<GQLRequest>
ReadOperationsEnd ==
    /\ pc = "ops_chunk"
    /\ bodyRead' = TRUE
    /\ field' = NoField
    /\ nchunks' = 0
    /\ part_data' = <<>>
    /\ \/ /\ Fail(400, "json error", "parse_operations")
          /\ UNCHANGED gql_request
       \/ \E g \in GQLRequests :
            /\ gql_request' = g
            /\ pc' = "map_next"
            /\ UNCHANGED <<resp, failure>>
    /\ UNCHANGED <<reqVars, route, polls, map, parsedMap, builder, hookCalls, engineError,
                   fileVars, executeCalls>>

\* the map field ends: the map is parsed, the builder built, the hook run and
\* is_upload checked, up to the first poll of the file loop
ReadMapEnd ==
    /\ pc = "map_chunk"
    /\ bodyRead' = TRUE
    /\ field' = NoField
    /\ nchunks' = 0
    /\ part_data' = <<>>
    /\ \/ /\ Fail(400, "json error", "parse_map")
          /\ UNCHANGED <<gql_request, map, parsedMap, builder, hookCalls, engineError>>
       \/ \E m \in UploadMaps :
            LET b == into_query_builder(gql_request)
            IN  /\ map' = m
                /\ parsedMap' = m
                /\ UNCHANGED gql_request
                /\ IF ~b.ok
                   THEN /\ pc' = "done"
                        /\ resp' = BuildErrorResponse
                        /\ engineError' = "build"
                        /\ UNCHANGED <<failure, builder, hookCalls>>
                   ELSE /\ builder' = b.builder
                        /\ hookCalls' = hookCalls + HookCallsOf(cfg)
                        /\ UNCHANGED engineError
                        /\ IF NotUploadOperation(b.builder)
                           THEN Fail(400, "It's not an upload operation", "not_upload")
                           ELSE /\ pc' = "files_next"
                                /\ UNCHANGED <<resp, failure>>
    /\ UNCHANGED <<reqVars, route, polls, fileVars, executeCalls>>

(***************************************************************************)
(* handle_request, multipart path: the file loop, lines 226-281            *)
(***************************************************************************)
\* file_field_check asking for the name alone, not for the filename
file_field_check_name_only(h, m) ==
    IF ~h.cd THEN "no_disposition"
    ELSE IF h.name = None THEN "no_name_or_filename"
    ELSE IF h.name \notin DOMAIN m THEN "unexpected_field"
    ELSE "ok"

\* lines 229-234 and 264-272: what the loop makes of a field's header
file_field_check(h, m) ==
    IF ~h.cd THEN "no_disposition"
    ELSE IF h.name = None \/ h.filename = None THEN "no_name_or_filename"
    ELSE IF h.name \notin DOMAIN m THEN "unexpected_field"
    ELSE "ok"

\* map.remove(name) leaving no key at all behind
map_clear(m, name) == [k \in {} |-> <<>>]

\* map.remove(name): the map without the key
map_remove(m, name) == [k \in DOMAIN m \ {name} |-> m[k]]

\* FileTooLarge one byte late
FileTooLargeOffByOne(d, c) == Len(d) > c.max_file_size + 1

\* line 241: data.len() > max_file_size
FileTooLarge(d, c) == Len(d) > c.max_file_size

\* TooManyFiles one file early
TooManyFilesOffByOne(n, c) == n >= c.max_file_count

\* line 259: file_count > max_file_count
TooManyFiles(n, c) == n > c.max_file_count

\* the check of line 275 left out
MissingFilesIgnored(m) == FALSE

\* line 275: !map.is_empty()
MissingFiles(m) == DOMAIN m # {}

\* set_uploads attaching the blob at the first variable path alone
set_uploads_first_path(paths, h, d) ==
    [i \in 1..(IF Len(paths) = 0 THEN 0 ELSE 1) |->
        [var_path |-> paths[i], filename |-> h.filename, content_type |-> h.content_type,
         data |-> d]]

\* lines 250-257: one set_upload per variable path, with the frozen data
set_uploads(paths, h, d) ==
    [i \in 1..Len(paths) |->
        [var_path |-> paths[i], filename |-> h.filename, content_type |-> h.content_type,
         data |-> d]]

\* multipart.next().await at line 227
FileNext ==
    /\ pc = "files_next"
    /\ bodyRead' = TRUE
    /\ \/ \* None: the loop ends, line 275 decides
          /\ IF MissingFiles(map)
             THEN Fail(400, "missing files", "missing_files")
             ELSE pc' = "mp_execute" /\ UNCHANGED <<resp, failure>>
          /\ streamEnded' = TRUE
          /\ UNCHANGED <<field, nchunks, map, var_paths, data, file_count, taken, chunkLog,
                         accepted>>
       \/ \* Some(Err(err)) at line 228
          /\ Fail(400, "multipart error", "stream_err")
          /\ UNCHANGED <<field, nchunks, map, fileVars>>
       \/ \E h \in FieldHeaders :
            /\ Len(taken) < MaxFileFields
            /\ UNCHANGED <<streamEnded, accepted>>
            /\ taken' = Append(taken, h)
            /\ LET check == file_field_check(h, map)
               IN  IF check = "ok"
                   THEN /\ var_paths' = map[h.name]
                        /\ map' = map_remove(map, h.name)
                        /\ field' = h
                        /\ nchunks' = 0
                        /\ data' = <<>>
                        /\ chunkLog' = <<>>
                        /\ pc' = "file_chunk"
                        /\ UNCHANGED <<resp, failure, file_count>>
                   ELSE /\ Fail(400, "bad request", check)
                        /\ UNCHANGED <<field, nchunks, map, var_paths, data, file_count,
                                       chunkLog>>
    /\ UNCHANGED <<reqVars, route, polls, part_data, gql_request, parsedMap, builder,
                   hookCalls, engineError, executeCalls>>

\* field.next().await at line 237 yields a chunk or an error
FileChunk ==
    /\ pc = "file_chunk"
    /\ bodyRead' = TRUE
    /\ \/ \E part \in Chunks :
            /\ nchunks < MaxChunks
            /\ data' = data \o part
            /\ chunkLog' = Append(chunkLog, part)
            /\ nchunks' = nchunks + 1
            /\ IF FileTooLarge(data', cfg)
               THEN Fail(413, "payload too large", "file_size")
               ELSE UNCHANGED <<pc, resp, failure>>
       \/ /\ ChunkError("file_chunk_err")
          /\ UNCHANGED <<data, nchunks, chunkLog>>
    /\ UNCHANGED <<reqVars, route, polls, field, part_data, buildVars, var_paths, file_count,
                   taken, streamEnded, accepted, executeCalls>>

\* field.next().await at line 237 yields None: lines 248-263
FileEnd ==
    /\ pc = "file_chunk"
    /\ bodyRead' = TRUE
    /\ builder' = [builder EXCEPT !.uploads = @ \o set_uploads(var_paths, field, data)]
    /\ file_count' = file_count + 1
    /\ field' = NoField
    /\ nchunks' = 0
    /\ var_paths' = <<>>
    /\ data' = <<>>
    /\ accepted' = Append(accepted, [head |-> field, chunks |-> chunkLog])
    /\ chunkLog' = <<>>
    /\ IF TooManyFiles(file_count', cfg)
       THEN Fail(413, "payload too large", "file_count")
       ELSE pc' = "files_next" /\ UNCHANGED <<resp, failure>>
    /\ UNCHANGED <<reqVars, route, polls, part_data, gql_request, map, parsedMap, hookCalls,
                   engineError, taken, streamEnded, executeCalls>>

\* builder.execute().await at line 279
MultipartExecute ==
    /\ pc = "mp_execute"
    /\ executeCalls' = executeCalls + 1
    /\ \E ok \in BOOLEAN :
         /\ resp' = MultipartExecuteResponse(ok)
         /\ engineError' = IF ok THEN "none" ELSE "execute"
    /\ pc' = "done"
    /\ UNCHANGED <<reqVars, route, failure, partVars, gql_request, map, parsedMap, builder,
                   hookCalls, fileVars, bodyRead>>

(***************************************************************************)
(* handle_request, JSON path: lines 282-305                                *)
(***************************************************************************)
\* web::Json::<GQLRequest>::from_request: Overflow for a body over the
\* extractor's limit, a deserialize error for a body that is no GQLRequest
json_extract(body) ==
    IF body.over_limit THEN "overflow"
    ELSE IF ~body.valid THEN "deserialize"
    ELSE "ok"

\* web::Json::<GQLRequest>::from_request(..).await, then the builder and the hook
JsonExtract ==
    /\ pc = "json_extract"
    /\ bodyRead' = TRUE
    /\ \E body \in JsonBodies :
         /\ json_body' = body
         /\ \/ \* JsonPayloadError::Overflow answers 413
               /\ json_extract(body) = "overflow"
               /\ Fail(413, "json payload overflow", "json_overflow")
               /\ UNCHANGED <<gql_request, builder, hookCalls, engineError>>
            \/ \* every other JsonPayloadError answers 400
               /\ json_extract(body) = "deserialize"
               /\ Fail(400, "json payload error", "json_extract")
               /\ UNCHANGED <<gql_request, builder, hookCalls, engineError>>
            \/ /\ json_extract(body) = "ok"
               /\ \E g \in GQLRequests :
                    LET b == into_query_builder(g)
                    IN  /\ gql_request' = g
                        /\ IF ~b.ok
                           THEN /\ pc' = "done"
                                /\ resp' = BuildErrorResponse
                                /\ engineError' = "build"
                                /\ UNCHANGED <<failure, builder, hookCalls>>
                           ELSE /\ builder' = b.builder
                                /\ hookCalls' = hookCalls + HookCallsOf(cfg)
                                /\ pc' = "json_execute"
                                /\ UNCHANGED <<resp, failure, engineError>>
    /\ UNCHANGED <<cfg, req, tasks, overlapped, route, partVars, map, parsedMap, fileVars,
                   executeCalls>>

\* builder.execute().await at line 294, and the response
JsonExecute ==
    /\ pc = "json_execute"
    /\ executeCalls' = executeCalls + 1
    /\ \E ok \in BOOLEAN :
         /\ resp' = JsonExecuteResponse(ok, builder.cache_control)
         /\ engineError' = IF ok THEN "none" ELSE "execute"
    /\ pc' = "done"
    /\ UNCHANGED <<reqVars, route, failure, partVars, gql_request, map, parsedMap, builder,
                   hookCalls, fileVars, bodyRead>>

Next ==
    \/ Dispatch
    \/ HandleRequest
    \/ ReadOperationsNext
    \/ ReadOperationsChunk
    \/ ReadOperationsEnd
    \/ ReadMapNext
    \/ ReadMapChunk
    \/ ReadMapEnd
    \/ FileNext
    \/ FileChunk
    \/ FileEnd
    \/ MultipartExecute
    \/ JsonExtract
    \/ JsonExecute

Spec == Init /\ [][Next]_vars

(***************************************************************************)
(* Several calls of handle_request in flight on one handler                *)
(*                                                                         *)
(* The closure built at lines 129-175 is called once per request; each     *)
(* call of handle_request owns its locals (map, file_count, data, builder) *)
(* and shares with the others only what the closure captured: the limits.  *)
(* Each request is followed from the file loop on (line 226), its map      *)
(* parsed and its builder built, one step per await.                       *)
(***************************************************************************)
Tasks == {1, 2}

\* the file fields a body may carry: header, chunks, and whether the stream
\* fails after them
FileA == [head |-> [cd |-> TRUE, name |-> "a", filename |-> "f.txt", content_type |-> "text/plain"],
          chunks |-> << <<1>> >>, err |-> FALSE]
FileB == [head |-> [cd |-> TRUE, name |-> "b", filename |-> "f.txt", content_type |-> "text/plain"],
          chunks |-> << <<1>>, <<1>> >>, err |-> FALSE]
FileBig == [FileA EXCEPT !.chunks = << <<1>>, <<2, 3>> >>]
FileBroken == [FileB EXCEPT !.chunks = << <<1>> >>, !.err = TRUE]

\* the rest of a multipart body after its map: the parsed map, the file
\* fields, how the stream ends and what the engine makes of the operation
TaskBodies ==
    [map : { [k \in Keys |-> IF k = "a" THEN <<"variables.file", "variables.files.0">>
                             ELSE <<"variables.file">>] },
     files : { <<>>, <<FileA>>, <<FileA, FileB>>, <<FileB, FileA>>, <<FileA, FileA>>,
               <<FileBig>>, <<FileA, FileBroken>> },
     ending : {"eof", "stream_err"},
     execute_ok : BOOLEAN]

\* the locals of handle_request at line 226
InitialTask(b) ==
    [body |-> b, pc |-> "files_next", fi |-> 1, ci |-> 0, map |-> b.map, var_paths |-> <<>>,
     data |-> <<>>, file_count |-> 0, uploads |-> <<>>, resp |-> NoResponse, steps |-> 0]

\* return Err(e) in a call
TaskFail(t, status, msg) == [t EXCEPT !.pc = "done", !.resp = ErrorResponse(status, msg)]

RECURSIVE SumFileCounts(_, _)
SumFileCounts(ts, S) ==
    IF S = {} THEN 0
    ELSE LET j == CHOOSE x \in S : TRUE
         IN  ts[j].file_count + SumFileCounts(ts, S \ {j})

\* FileCountSeen with one counter captured by the closure and shared by the calls
FileCountShared(ts, i) == SumFileCounts(ts, DOMAIN ts)

\* line 226: `let mut file_count = 0` is a local of the call
FileCountSeen(ts, i) == ts[i].file_count

\* multipart.next().await at line 227, and lines 228-235, 264-277
task_file_next(ts, i, c) ==
    LET t == ts[i]
        b == t.body
    IN  IF t.fi > Len(b.files)
        THEN IF b.ending = "stream_err" THEN TaskFail(t, 400, "multipart error")
             ELSE IF MissingFiles(t.map) THEN TaskFail(t, 400, "missing files")
             ELSE [t EXCEPT !.pc = "mp_execute"]
        ELSE LET h == b.files[t.fi].head
                 check == file_field_check(h, t.map)
             IN  IF check = "ok"
                 THEN [t EXCEPT !.var_paths = t.map[h.name],
                                !.map = map_remove(t.map, h.name),
                                !.data = <<>>, !.ci = 0, !.pc = "file_chunk"]
                 ELSE TaskFail(t, 400, "bad request")

\* a chunk or an error is left in the field
TaskHasChunk(t) ==
    LET f == t.body.files[t.fi] IN t.ci < Len(f.chunks) \/ f.err

\* field.next().await at line 237 yielding Some, and lines 238-245
task_file_chunk(ts, i, c) ==
    LET t == ts[i]
        f == t.body.files[t.fi]
    IN  IF t.ci < Len(f.chunks)
        THEN LET d == t.data \o f.chunks[t.ci + 1]
                 u == [t EXCEPT !.data = d, !.ci = t.ci + 1]
             IN  IF FileTooLarge(d, c) THEN TaskFail(u, 413, "payload too large") ELSE u
        ELSE TaskFail(t, 400, "payload error")

\* field.next().await at line 237 yielding None, and lines 248-263
task_file_end(ts, i, c) ==
    LET t == ts[i]
        f == t.body.files[t.fi]
        u == [t EXCEPT !.uploads = @ \o set_uploads(t.var_paths, f.head, t.data),
                       !.file_count = @ + 1,
                       !.fi = @ + 1, !.ci = 0, !.var_paths = <<>>, !.data = <<>>]
        us == [ts EXCEPT ![i] = u]
    IN  IF TooManyFiles(FileCountSeen(us, i), c) THEN TaskFail(u, 413, "payload too large")
        ELSE [u EXCEPT !.pc = "files_next"]

\* builder.execute().await at line 279
task_execute(ts, i, c) ==
    LET t == ts[i]
    IN  [t EXCEPT !.resp = MultipartExecuteResponse(t.body.execute_ok), !.pc = "done"]

\* the step a call takes from where it stands, up to its next await
TaskStep(ts, i, c) ==
    LET t == ts[i]
        u == IF t.pc = "files_next" THEN task_file_next(ts, i, c)
             ELSE IF t.pc = "file_chunk" /\ TaskHasChunk(t) THEN task_file_chunk(ts, i, c)
             ELSE IF t.pc = "file_chunk" THEN task_file_end(ts, i, c)
             ELSE IF t.pc = "mp_execute" THEN task_execute(ts, i, c)
             ELSE t
    IN  IF t.pc = "done" THEN t ELSE [u EXCEPT !.steps = t.steps + 1]

\* another call is under way: it has started and has not returned
OthersUnderWay(i) == \E j \in Tasks \ {i} : tasks[j].steps > 0 /\ tasks[j].pc # "done"

TaskResume(i) ==
    /\ tasks' = [tasks EXCEPT ![i] = TaskStep(tasks, i, cfg)]
    /\ overlapped' = [overlapped EXCEPT ![i] = @ \/ OthersUnderWay(i)]
    /\ UNCHANGED <<cfg, req, json_body, pc, route, resp, failure, partVars, buildVars, fileVars,
                   executeCalls, bodyRead>>

TaskFileNext(i) == tasks[i].pc = "files_next" /\ TaskResume(i)
TaskFileChunk(i) == tasks[i].pc = "file_chunk" /\ TaskHasChunk(tasks[i]) /\ TaskResume(i)
TaskFileEnd(i) == tasks[i].pc = "file_chunk" /\ ~TaskHasChunk(tasks[i]) /\ TaskResume(i)
TaskExecute(i) == tasks[i].pc = "mp_execute" /\ TaskResume(i)

\* the limits two concurrent requests are checked against
ConcurrentConfigs ==
    { c \in Configs : c.max_file_size = 2 /\ c.max_file_count \in {1, 2} /\ ~c.on_request
                      /\ ~c.enable_ui /\ ~c.enable_subscription }

InitConcurrent ==
    /\ cfg \in ConcurrentConfigs
    /\ req = [method |-> "POST", upgrade |-> NoHeader, content_type |-> Header(sMultipartFormData)]
    /\ pc = "start"
    /\ route = None
    /\ resp = NoResponse
    /\ failure = None
    /\ polls = <<>>
    /\ field = NoField
    /\ nchunks = 0
    /\ part_data = <<>>
    /\ gql_request = NoRequest
    /\ map = EmptyMap
    /\ parsedMap = EmptyMap
    /\ builder = NoBuilder
    /\ var_paths = <<>>
    /\ data = <<>>
    /\ file_count = 0
    /\ taken = <<>>
    /\ streamEnded = FALSE
    /\ chunkLog = <<>>
    /\ accepted = <<>>
    /\ hookCalls = 0
    /\ executeCalls = 0
    /\ engineError = "none"
    /\ bodyRead = FALSE
    /\ json_body = NoBody
    /\ tasks \in [Tasks -> {InitialTask(b) : b \in TaskBodies}]
    /\ overlapped = [i \in Tasks |-> FALSE]

NextConcurrent ==
    \E i \in Tasks :
        \/ TaskFileNext(i)
        \/ TaskFileChunk(i)
        \/ TaskFileEnd(i)
        \/ TaskExecute(i)

SpecConcurrent == InitConcurrent /\ [][NextConcurrent]_vars

(***************************************************************************)
(* Properties of the dispatcher                                            *)
(***************************************************************************)
\* the sample Content-Type headers by their media type, parameters aside
JsonContentTypes ==
    { Header(sApplicationJson),
      Header(sApplicationJson \o <<";", " ", "c", "=", "u">>),
      Header(<<"A", "p", "p", "l", "i", "c", "a", "t", "i", "o", "n", "/", "J", "S", "O", "N">>) }
MultipartContentTypes ==
    { Header(sMultipartFormData), Header(sMultipartFormData \o <<";", " ", "b", "=", "x">>) }

\* the sample Upgrade headers whose value holds "websocket" in any case
WebsocketUpgradeHeaders ==
    { Header(sWebsocket),
      Header(<<"W", "e", "b", "S", "o", "c", "k", "e", "t">>),
      Header(<<"h", "2", "c", ",", " ">> \o sWebsocket),
      Header(sWebsocket \o <<"0xFF">>) }
\* those of them that are visible ASCII throughout
TextWebsocketUpgradeHeaders == WebsocketUpgradeHeaders \ { Header(sWebsocket \o <<"0xFF">>) }

Dispatched == pc \notin {"start", "handle_request"}

\* C1: a POST is routed by the essence of its Content-Type alone: application/json
\* to the JSON path, multipart/form-data to the multipart path, and every other,
\* missing or unparseable Content-Type is answered 415 with an empty body and
\* the payload never polled.
C1_PostRoutedByEssence ==
    (req.method = "POST" /\ Dispatched) =>
        /\ (req.content_type \in JsonContentTypes) <=> (route = "json")
        /\ (req.content_type \in MultipartContentTypes) <=> (route = "multipart")
        /\ (req.content_type \notin JsonContentTypes \cup MultipartContentTypes) =>
              /\ pc = "done"
              /\ route = "reject415"
              /\ resp = Finish(415)
              /\ resp.body = ""
              /\ ~bodyRead

C1_Witness ==
    /\ pc = "done"
    /\ req.method = "POST"
    /\ req.content_type = Header(sTextPlain)
    /\ resp.status = 415
    /\ ~bodyRead

\* what a GET gets when it is not handed to the subscription transport
GetServedDocumentation ==
    (pc = "done" /\ req.method = "GET" /\ route # "subscription" /\ cfg.enable_ui) =>
        /\ route = "ui"
        /\ resp.status = 200
        /\ resp.body = "playground_source"

\* C2 as claimed: a GET is handed to the subscription transport exactly when
\* subscriptions are enabled and the Upgrade value holds "websocket" in any
\* case, before the documentation page; otherwise the page is served if enabled.
C2_AsClaimed ==
    /\ (pc = "done" /\ req.method = "GET") =>
          ((route = "subscription") <=>
              (cfg.enable_subscription /\ req.upgrade \in WebsocketUpgradeHeaders))
    /\ GetServedDocumentation

\* C2 amended: a GET is handed to the subscription transport exactly when
\* subscriptions are enabled and the Upgrade value is visible ASCII throughout
\* and holds "websocket" in any case, before the documentation page; otherwise
\* the documentation page is served with 200 if it is enabled.
C2_UpgradeBeforeDocumentation ==
    /\ (pc = "done" /\ req.method = "GET") =>
          ((route = "subscription") <=>
              (cfg.enable_subscription /\ req.upgrade \in TextWebsocketUpgradeHeaders))
    /\ GetServedDocumentation

C2_Witness ==
    /\ pc = "done"
    /\ req.method = "GET"
    /\ cfg.enable_subscription
    /\ cfg.enable_ui
    /\ req.upgrade = Header(<<"W", "e", "b", "S", "o", "c", "k", "e", "t">>)
    /\ route = "subscription"

\* a request that is no POST and no GET served by the transport or the page
NotServed ==
    /\ req.method # "POST"
    /\ ~(req.method = "GET" /\ cfg.enable_subscription
           /\ req.upgrade \in TextWebsocketUpgradeHeaders)
    /\ ~(req.method = "GET" /\ cfg.enable_ui)

\* C3: every request that is neither a POST nor a GET served by the
\* subscription transport or the documentation page is answered 405 with an
\* empty body, whatever its Content-Type, and nothing else is done with it.
C3_OtherwiseMethodNotAllowed ==
    NotServed =>
        /\ pc \in {"start", "done"}
        /\ pc = "done" =>
              /\ route = "reject405"
              /\ resp = Finish(405)
              /\ resp.body = ""
              /\ ~bodyRead
              /\ hookCalls = 0
              /\ executeCalls = 0

C3_Witness ==
    /\ pc = "done"
    /\ req.method = "GET"
    /\ ~cfg.enable_ui
    /\ req.upgrade = Header(sWebsocket)
    /\ ~cfg.enable_subscription
    /\ resp.status = 405

(***************************************************************************)
(* Properties of the multipart decoder                                     *)
(***************************************************************************)
\* the i-th field read_multipart got is a field of that disposition name
PartNamed(i, name) ==
    /\ polls[i].kind = "field"
    /\ polls[i].head.cd
    /\ polls[i].head.name = name

\* the file loop has taken nothing from the stream
NoFileFieldRead ==
    /\ taken = <<>>
    /\ ~streamEnded
    /\ data = <<>>
    /\ file_count = 0
    /\ builder.uploads = <<>>

RejectedBeforeFiles ==
    /\ pc = "done"
    /\ resp.status = 400
    /\ executeCalls = 0
    /\ NoFileFieldRead

\* C4: on the multipart path the first field must be named "operations" and
\* the second "map"; when they are swapped, when "map" is left out (a file
\* field or the end of the stream comes instead) or when either does not
\* parse, the request is answered 400 before the file loop has read any field.
C4_OperationsThenMap ==
    /\ (Len(polls) >= 1 /\ ~PartNamed(1, "operations")) => RejectedBeforeFiles
    /\ (Len(polls) >= 2 /\ ~PartNamed(2, "map")) => RejectedBeforeFiles
    /\ (failure \in {"parse_operations", "parse_map"}) => RejectedBeforeFiles
    /\ (pc \in {"files_next", "file_chunk", "mp_execute"} \/ taken # <<>> \/ streamEnded) =>
          (Len(polls) = 2 /\ PartNamed(1, "operations") /\ PartNamed(2, "map"))

C4_Witness ==
    /\ pc = "done"
    /\ Len(polls) = 2
    /\ PartNamed(1, "operations")
    /\ polls[2].kind = "field"
    /\ polls[2].head.name \in Keys
    /\ polls[2].head.filename = "f.txt"
    /\ resp.status = 400
    /\ NoFileFieldRead

\* the longest chunk the stream delivers
MaxChunkLen == CHOOSE n \in {Len(c) : c \in Chunks} : \A c \in Chunks : Len(c) <= n

\* once the buffer of a file field exceeds max_file_size the request is over, with 413
RejectedOnceTooLarge ==
    (Len(data) > cfg.max_file_size) =>
        /\ pc = "done"
        /\ resp.status = 413
        /\ failure = "file_size"

\* C5 as claimed: the request is rejected with 413 as soon as the bytes of a
\* file field exceed max_file_size, and the file buffer never holds more than
\* max_file_size + 1 bytes.
C5_AsClaimed ==
    /\ RejectedOnceTooLarge
    /\ Len(data) <= cfg.max_file_size + 1

\* C5 amended: the request is rejected with 413, no further chunk being read,
\* as soon as the bytes of a file field exceed max_file_size; the buffer holds
\* at most max_file_size bytes while the field is streamed and, at the
\* rejection, at most max_file_size bytes plus the chunk that was appended last.
C5_RejectedAfterWholeChunk ==
    /\ RejectedOnceTooLarge
    /\ (pc # "done") => Len(data) <= cfg.max_file_size
    /\ (Len(data) > cfg.max_file_size) =>
          \E part \in Chunks :
             /\ Len(part) <= Len(data)
             /\ SubSeq(data, Len(data) - Len(part) + 1, Len(data)) = part
             /\ Len(data) - Len(part) <= cfg.max_file_size
    /\ Len(data) <= cfg.max_file_size + MaxChunkLen

C5_Witness ==
    /\ pc = "done"
    /\ resp.status = 413
    /\ failure = "file_size"
    /\ Len(data) = cfg.max_file_size + 2

\* the number of set_upload calls the first n fields of the file loop are due
RECURSIVE PathsOfFirst(_)
PathsOfFirst(n) ==
    IF n = 0 THEN 0 ELSE PathsOfFirst(n - 1) + Len(parsedMap[taken[n].name])

\* the i-th field of the file loop is well-formed and mapped
WellFormedMapped(i) ==
    /\ taken[i].cd
    /\ taken[i].filename # None
    /\ taken[i].name \in DOMAIN parsedMap

\* C6: a request that supplies max_file_count + 1 well-formed, mapped file
\* fields within the size limit is rejected with 413 when the last of them
\* completes, the first max_file_count having been accepted and attached; no
\* request that is executed has had more than max_file_count fields accepted.
C6_FileCountLimit ==
    /\ (file_count > cfg.max_file_count) =>
          /\ pc = "done"
          /\ resp.status = 413
          /\ failure = "file_count"
    /\ (failure = "file_count") =>
          /\ file_count = cfg.max_file_count + 1
          /\ Len(taken) = cfg.max_file_count + 1
          /\ \A i \in 1..Len(taken) : WellFormedMapped(i)
          /\ Len(builder.uploads) = PathsOfFirst(Len(taken))
          /\ executeCalls = 0
    /\ (pc = "mp_execute" \/ (route = "multipart" /\ executeCalls > 0)) =>
          /\ file_count <= cfg.max_file_count
          /\ Len(taken) <= cfg.max_file_count

C6_Witness ==
    /\ pc = "done"
    /\ cfg.max_file_count = 1
    /\ file_count = 2
    /\ resp.status = 413
    /\ Len(builder.uploads) >= 2

\* C7: when the file loop finds the field stream ended while a key of the
\* upload map is still unmatched, the request is answered 400 "missing files"
\* and the operation is not executed.
C7_MissingFiles ==
    (streamEnded /\ DOMAIN map # {}) =>
        /\ pc = "done"
        /\ resp.status = 400
        /\ resp.msg = "missing files"
        /\ executeCalls = 0

C7_Witness ==
    /\ streamEnded
    /\ Cardinality(DOMAIN parsedMap) = 2
    /\ Cardinality(DOMAIN map) = 1
    /\ resp.status = 400

\* the i-th field of the file loop lacks a disposition, a name or a filename,
\* or its name is no key of the upload map, or an earlier field had its name
BadFileField(i) ==
    \/ ~WellFormedMapped(i)
    \/ taken[i].name = None
    \/ \E j \in 1..(i - 1) : taken[j].name = taken[i].name

\* C8: every field the decoder reads after "map" that lacks a content
\* disposition, a name or a filename, or whose name is not a key of the upload
\* map still unmatched (a key matched before included), ends the request with
\* 400, and the operation is not executed.
C8_BadFileFieldRejected ==
    \A i \in 1..Len(taken) :
        BadFileField(i) =>
            /\ i = Len(taken)
            /\ pc = "done"
            /\ resp.status = 400
            /\ executeCalls = 0

C8_Witness ==
    /\ pc = "done"
    /\ Len(taken) = 2
    /\ WellFormedMapped(2)
    /\ taken[1].name = taken[2].name
    /\ resp.status = 400

\* C9: when the engine executes the operation of a multipart request, the
\* upload map is empty, every key of the parsed map has been matched by
\* exactly one file field, and every file field of the stream was matched to a
\* key and attached.
C9_MapResolvedAtExecution ==
    (pc = "mp_execute" \/ (route = "multipart" /\ executeCalls > 0)) =>
        /\ DOMAIN map = {}
        /\ streamEnded
        /\ \A k \in DOMAIN parsedMap :
              Cardinality({i \in 1..Len(taken) : taken[i].name = k}) = 1
        /\ \A i \in 1..Len(taken) : WellFormedMapped(i)
        /\ file_count = Len(taken)
        /\ Len(builder.uploads) = PathsOfFirst(Len(taken))
        /\ \A i \in 1..Len(taken) :
              \E u \in 1..Len(builder.uploads) :
                 /\ builder.uploads[u].filename = taken[i].filename
                 /\ builder.uploads[u].var_path = parsedMap[taken[i].name][1]

C9_Witness ==
    /\ pc = "done"
    /\ route = "multipart"
    /\ executeCalls = 1
    /\ Cardinality(DOMAIN parsedMap) = 2
    /\ Len(taken) = 2

\* C10: on the JSON and on the multipart path an error of the engine, met when
\* the operation is built or returned by execute, gives a 200 response whose
\* body carries the error result, never a 4xx or 5xx.
C10_EngineErrorIs200 ==
    (engineError # "none") =>
        /\ pc = "done"
        /\ route \in {"json", "multipart"}
        /\ resp.status = 200
        /\ resp.body = "errors"
        /\ failure = None

C10_Witness ==
    /\ pc = "done"
    /\ route = "multipart"
    /\ engineError = "build"
    /\ resp.status = 200

(***************************************************************************)
(* Properties of the responses                                             *)
(***************************************************************************)
\* the response of the JSON path is 200 and carries data or errors
JsonAnswered ==
    /\ resp.status = 200
    /\ resp.body \in {"data", "errors"}
    /\ failure = None

\* C11 as claimed: a POST with Content-Type application/json whose body is a
\* valid operation descriptor is answered 200 with data or errors, never 4xx.
C11_AsClaimed ==
    (pc = "done" /\ route = "json" /\ json_body.valid) => JsonAnswered

\* C11 amended: a POST with Content-Type application/json whose body is a
\* valid operation descriptor no longer than the payload limit of the Json
\* extractor is answered 200 with data or errors, never 4xx, whatever the
\* engine does with the query; a body over that limit is answered 413.
C11_ValidJsonIs200 ==
    /\ (pc = "done" /\ route = "json" /\ json_body.valid /\ ~json_body.over_limit) =>
          JsonAnswered
    /\ (pc = "done" /\ route = "json" /\ json_body.over_limit) => resp.status = 413

C11_Witness ==
    /\ pc = "done"
    /\ route = "json"
    /\ json_body.valid
    /\ ~json_body.over_limit
    /\ engineError = "execute"
    /\ resp.status = 200
    /\ resp.body = "errors"

\* C12: on the JSON path the response carries Cache-Control exactly when
\* execute succeeded and the engine declared a directive for the operation,
\* and the header is that directive; after an engine error it is absent; on
\* the multipart path the response never carries it.
C12_CacheControl ==
    /\ (pc = "done" /\ route = "json") =>
          /\ (resp.cache_control # None) <=>
                /\ executeCalls = 1
                /\ engineError = "none"
                /\ gql_request.cache_control # None
          /\ (resp.cache_control # None) => resp.cache_control = gql_request.cache_control
          /\ (engineError # "none") => resp.cache_control = None
    /\ (pc = "done" /\ route = "multipart") => resp.cache_control = None

C12_Witness ==
    /\ pc = "done"
    /\ route = "json"
    /\ executeCalls = 1
    /\ engineError = "none"
    /\ resp.cache_control = "max-age=30"

\* the map part has been read to its end and parsed
MapParsed ==
    /\ route = "multipart"
    /\ Len(polls) = 2
    /\ PartNamed(2, "map")
    /\ pc # "map_chunk"
    /\ failure \notin {"part_chunk_err", "parse_map"}

\* the request was decoded and the engine accepted its document
OperationBuilt ==
    /\ gql_request.document_ok
    /\ \/ route = "json" /\ json_body.read /\ json_body.valid /\ ~json_body.over_limit
       \/ MapParsed

\* C13 as claimed: a configured hook runs exactly once in every request
\* handled on the JSON or the multipart path.
C13_AsClaimed ==
    (pc = "done" /\ route \in {"json", "multipart"} /\ cfg.on_request) => hookCalls = 1

\* C13 amended: a configured hook runs at most once in any request: exactly
\* once in every request of the JSON or the multipart path that was decoded
\* and whose operation the engine built, and not at all in a request that ends
\* before that; on the multipart path its call precedes every attachment of a
\* file blob and the execution.
C13_HookOncePerBuiltOperation ==
    /\ hookCalls <= 1
    /\ ~cfg.on_request => hookCalls = 0
    /\ cfg.on_request => ((hookCalls = 1) <=> OperationBuilt)
    /\ (cfg.on_request /\ (builder.uploads # <<>> \/ taken # <<>> \/ executeCalls > 0)) =>
          hookCalls = 1

C13_Witness ==
    /\ cfg.on_request
    /\ route = "multipart"
    /\ hookCalls = 1
    /\ Len(builder.uploads) = 2
    /\ executeCalls = 1

\* C14: a multipart request whose operation, once built, is no upload
\* operation is answered 400 and never executed, also when its operations, map
\* and file fields are well-formed and within the limits.
C14_NotAnUploadOperation ==
    (MapParsed /\ gql_request.document_ok /\ ~gql_request.is_upload) =>
        /\ pc = "done"
        /\ resp.status = 400
        /\ resp.msg = "It's not an upload operation"
        /\ executeCalls = 0
        /\ NoFileFieldRead

C14_Witness ==
    /\ pc = "done"
    /\ MapParsed
    /\ gql_request.document_ok
    /\ ~gql_request.is_upload
    /\ Cardinality(DOMAIN parsedMap) = 1
    /\ resp.status = 400

\* the failures of the multipart decoder, by the taxonomy of the decoder
MalformedField ==
    {"no_disposition", "no_name", "expect_name", "no_name_or_filename", "eof", "stream_err",
     "part_chunk_err", "file_chunk_err"}
UnexpectedField == {"unexpected_field"}
ParseError == {"parse_operations", "parse_map"}
IncompleteUpload == {"missing_files"}
PayloadTooLarge == {"file_size", "file_count"}
DecoderFailures ==
    MalformedField \cup UnexpectedField \cup ParseError \cup IncompleteUpload \cup PayloadTooLarge

\* C15: every failure of the multipart decoder is answered with the status of
\* the taxonomy: 400 for a malformed or unexpected field, a parse failure and
\* an incomplete upload, 413 for a file over the size limit or one file too
\* many; every response is a protocol switch, 200, 400, 405, 413 or 415, and
\* no failure of decoding or adaptation is answered 5xx.
C15_StatusTaxonomy ==
    /\ (failure \in DecoderFailures \ PayloadTooLarge) => (pc = "done" /\ resp.status = 400)
    /\ (failure \in PayloadTooLarge) => (pc = "done" /\ resp.status = 413)
    /\ (failure = "not_upload") => (pc = "done" /\ resp.status = 400)
    /\ (failure # None) => (pc = "done" /\ resp.status \in {400, 413})
    /\ (route = "multipart" /\ failure # None) => failure \in DecoderFailures \cup {"not_upload"}
    /\ (pc = "done") => resp.status \in {101, 200, 400, 405, 413, 415}
    /\ (route = "reject405") => resp.status = 405
    /\ (route = "reject415") => resp.status = 415

C15_Witness ==
    /\ pc = "done"
    /\ failure = "unexpected_field"
    /\ Len(taken) = 2
    /\ resp.status = 400

(***************************************************************************)
(* Properties of the attachments                                           *)
(***************************************************************************)
\* the chunks of a field, one after the other in the order of their arrival
RECURSIVE Concatenated(_)
Concatenated(chunks) ==
    IF chunks = <<>> THEN <<>>
    ELSE Concatenated(SubSeq(chunks, 1, Len(chunks) - 1)) \o chunks[Len(chunks)]

\* the attachments a completed file field is due: one per variable path of its key
AttachmentsOf(f) ==
    [j \in 1..Len(parsedMap[f.head.name]) |->
        [var_path |-> parsedMap[f.head.name][j],
         filename |-> f.head.filename,
         content_type |-> f.head.content_type,
         data |-> Concatenated(f.chunks)]]

RECURSIVE AttachmentsOfFirst(_)
AttachmentsOfFirst(n) ==
    IF n = 0 THEN <<>> ELSE AttachmentsOfFirst(n - 1) \o AttachmentsOf(accepted[n])

\* C16: for every file field the decoder accepted, the blob is attached exactly
\* once at each variable path listed under its key, with the field's filename,
\* its content type and the bytes of its chunks in the order they arrived;
\* the file counter counts file fields, not variable paths.
C16_BlobAttachedPerPath ==
    /\ builder.uploads = AttachmentsOfFirst(Len(accepted))
    /\ file_count = Len(accepted)
    /\ \A i \in 1..Len(accepted) : accepted[i].head = taken[i]

C16_Witness ==
    /\ Len(accepted) = 1
    /\ Len(accepted[1].chunks) = 2
    /\ Len(parsedMap[accepted[1].head.name]) = 2
    /\ file_count = 1
    /\ Len(builder.uploads) = 2
    /\ builder.uploads[2].var_path = "variables.files.0"
    /\ builder.uploads[2].data = <<1, 1>>

(***************************************************************************)
(* Properties of the execution                                             *)
(***************************************************************************)
\* every decoding and adaptation step before the execution has succeeded
AllStepsSucceeded ==
    /\ failure = None
    /\ builder.built
    /\ gql_request.document_ok
    /\ hookCalls = HookCallsOf(cfg)
    /\ route = "multipart" =>
          /\ MapParsed
          /\ gql_request.is_upload
          /\ streamEnded
          /\ ~MissingFiles(map)
          /\ file_count = Len(taken)
          /\ file_count <= cfg.max_file_count
    /\ route = "json" => json_extract(json_body) = "ok"

\* C17: the engine's execute is invoked at most once in a request, only after
\* every decoding and adaptation step has succeeded; a request that ends
\* with a 4xx status has not executed, and once a step has failed the
\* request is over: no step is taken again.
C17_ExecutedAtMostOnce ==
    /\ executeCalls <= 1
    /\ executeCalls = 1 => AllStepsSucceeded /\ pc = "done" /\ resp.status = 200
    /\ pc = "mp_execute" \/ pc = "json_execute" => AllStepsSucceeded /\ executeCalls = 0
    /\ (pc = "done" /\ resp.status >= 400) => executeCalls = 0 /\ resp.status < 500
    /\ failure # None => pc = "done" /\ executeCalls = 0 /\ resp.status >= 400
    /\ pc = "done" => ~ENABLED Next

C17_Witness ==
    /\ executeCalls = 1
    /\ route = "multipart"
    /\ Len(accepted) = 2
    /\ pc = "done"
    /\ resp.status = 200

(***************************************************************************)
(* Properties of a failing body stream                                     *)
(***************************************************************************)
\* the body stream has failed while a field was being streamed
StreamFailedInField == failure \in {"part_chunk_err", "file_chunk_err"}

\* C18: once the body stream has failed while a field is streamed (the
\* operations field, the map field or a file field), the request is over
\* with no further read, the operation has not been executed, and the blobs
\* attached are those of the file fields streamed to their end before:
\* the partially buffered one is attached nowhere.
C18_StreamFailureEndsRequest ==
    StreamFailedInField =>
        /\ pc = "done"
        /\ ~ENABLED Next
        /\ executeCalls = 0
        /\ resp.status = 400
        /\ builder.uploads = AttachmentsOfFirst(Len(accepted))
        /\ failure = "file_chunk_err" =>
              /\ Len(accepted) = Len(taken) - 1
              /\ file_count = Len(accepted)
              /\ data = Concatenated(chunkLog)
        /\ failure = "part_chunk_err" =>
              /\ taken = <<>>
              /\ builder = NoBuilder
              /\ Len(polls) \in {1, 2}

C18_Witness ==
    /\ failure = "file_chunk_err"
    /\ Len(taken) = 2
    /\ Len(accepted) = 1
    /\ data # <<>>
    /\ Len(builder.uploads) = Len(parsedMap[taken[1].name])
    /\ pc = "done"

\* the stream failing inside the operations field and inside the map field
C18_WitnessParts ==
    /\ failure = "part_chunk_err"
    /\ Len(polls) = 2
    /\ part_data # <<>>

(***************************************************************************)
(* Properties of a document the engine rejects on the multipart path       *)
(***************************************************************************)
\* the operations and map fields were parsed and the engine rejected the document
DocumentRejectedAfterMap == MapParsed /\ ~gql_request.document_ok

\* C20: on the multipart path a document the engine rejects is answered with
\* the 200 error response as soon as the operations and map fields are
\* parsed: no file field is read, the hook is not invoked, and none of the
\* not-an-upload, file-field, size, count and missing-files checks is applied,
\* whatever the map lists and whatever the limits are.
C20_RejectedDocumentAnsweredBeforeFiles ==
    DocumentRejectedAfterMap =>
        /\ pc = "done"
        /\ ~ENABLED Next
        /\ resp = BuildErrorResponse
        /\ resp.status = 200
        /\ engineError = "build"
        /\ failure = None
        /\ hookCalls = 0
        /\ executeCalls = 0
        /\ builder = NoBuilder
        /\ NoFileFieldRead
        /\ map = parsedMap

\* a rejected document whose request would fail each later check: it is not
\* an upload operation, its map lists files that never come, no file is allowed
C20_Witness ==
    /\ DocumentRejectedAfterMap
    /\ ~gql_request.is_upload
    /\ MissingFiles(map)
    /\ cfg.max_file_count = 0
    /\ cfg.on_request
    /\ resp.status = 200
    /\ pc = "done"

(***************************************************************************)
(* Properties of concurrent requests                                       *)
(***************************************************************************)
\* the call of request i after n steps with no other call on the handler
RECURSIVE RunAlone(_, _, _, _)
RunAlone(i, b, n, c) ==
    IF n = 0 THEN InitialTask(b)
    ELSE TaskStep([j \in {i} |-> RunAlone(i, b, n - 1, c)], i, c)

\* the call of request i run alone until it returns
RECURSIVE RunAloneToEnd(_, _, _)
RunAloneToEnd(i, t, c) ==
    IF t.pc = "done" THEN t ELSE RunAloneToEnd(i, TaskStep([j \in {i} |-> t], i, c), c)

\* C19: when requests are handled concurrently by one handler and interleave
\* at their awaits, each call's map, file counter, buffer and attachments are
\* at every step what they are after as many steps of the request handled
\* alone; a request that has returned has the response and the attached
\* blobs of the request handled alone, whatever the interleaving.
C19_RequestsIsolated ==
    \A i \in DOMAIN tasks :
        /\ tasks[i] = RunAlone(i, tasks[i].body, tasks[i].steps, cfg)
        /\ tasks[i].pc = "done" =>
              LET alone == RunAloneToEnd(i, InitialTask(tasks[i].body), cfg)
              IN  /\ tasks[i].resp = alone.resp
                  /\ tasks[i].uploads = alone.uploads

\* two requests with two files each, both answered after steps taken while
\* the other was under way, under a limit of two files per request
C19_Witness ==
    /\ DOMAIN tasks = Tasks
    /\ cfg.max_file_count = 2
    /\ \A i \in Tasks :
          /\ tasks[i].pc = "done"
          /\ overlapped[i]
          /\ tasks[i].file_count = 2
          /\ Len(tasks[i].uploads) = 3
          /\ tasks[i].resp.status = 200

=============================================================================
